---------------------------- MODULE Spec2Model ----------------------------
(***************************************************************************)
(* Model of KantechCalc.py: the per-line sizing pipeline (device tallies   *)
(* -> demand -> controller selection -> expansion selection -> line total) *)
(* and the interactive session that owns the lines, the stored results and *)
(* the license decision.                                                   *)
(***************************************************************************)
EXTENDS Integers, Naturals, Sequences, FiniteSets, TLC

VARIABLES
    \* ---- the session: KantechDCCalculator's attributes and its last message
    dc_lines,        \* self.dc_lines: sequence of DCDevice records
    all_results,     \* self.all_results: <<>> while the attribute does not exist, else <<value>>
    grand_total,     \* self.grand_total: <<>> or <<value>>
    license_result,  \* self.license_result: <<>> or <<value>>
    single_result,   \* self.single_result: <<>> or <<list of line results>>
    report,          \* what the last menu operation printed
    \* ---- one call of calculate_single_dc_line, step by step
    dc_line,         \* the DCDevice passed in
    pc,              \* position inside calculate_single_dc_line
    dc_totals,       \* <<>> or <<requirements>>
    controller_info, \* <<>> or <<what select_controllers_for_dc returned>>
    expansion,       \* <<>> or <<what calculate_expansion_for_dc returned>>
    result           \* <<>> or <<the returned line result, or None>>

session_vars == <<dc_lines, all_results, grand_total, license_result, single_result, report>>
line_vars == <<dc_line, pc, dc_totals, controller_info, expansion, result>>
vars == <<dc_lines, all_results, grand_total, license_result, single_result, report,
          dc_line, pc, dc_totals, controller_info, expansion, result>>

---------------------------------------------------------------------------
(* Bounds of the model. *)

\* pair family: two tally fields take every value pair in 0..MaxCount
MaxCount == 6
\* grid family: readers 0..MaxGridReaders, door sensors 0..MaxInputs, electric locks 0..MaxOutputs
MaxGridReaders == 2
MaxInputs == 34
MaxOutputs == 34
\* reader family: smart-card counts 0..MaxReaderDemand
MaxReaderDemand == 24
\* the brute-force oracle looks this many units beyond the demand in every variant
OracleSlack == 4
\* the session holds at most MaxLines lines
MaxLines == 3
\* the smart-card count of the session's large line
BigReaders == 64
\* self.single_result holds at most MaxSingleResults line results
MaxSingleResults == 2

---------------------------------------------------------------------------
(* Python values. *)

\* None
None == [none |-> TRUE]

\* float('inf') as the initial best cost: never a real cost
Inf == -1

\* cost < best_cost, where best_cost may still be float('inf')
CostLess(cost, best_cost) == best_cost = Inf \/ cost < best_cost

Max(a, b) == IF a >= b THEN a ELSE b

\* int(np.ceil(a / b)) for a >= 0, b > 0
CeilDiv(a, b) == IF a % b = 0 THEN a \div b ELSE (a \div b) + 1

---------------------------------------------------------------------------
(* DCDevice *)

FieldNames ==
    {"smart_card", "fingerprint", "door_sensor", "magnetic_lock", "electric_lock",
     "rex_button", "push_button", "break_glass", "buzzer", "double_door_lock",
     "ddl_sensors"}

\* DCDevice(dc_number=n): every tally defaults to 0
DCDevice(n) ==
    [dc_number |-> n, smart_card |-> 0, fingerprint |-> 0, door_sensor |-> 0,
     magnetic_lock |-> 0, electric_lock |-> 0, rex_button |-> 0, push_button |-> 0,
     break_glass |-> 0, buzzer |-> 0, double_door_lock |-> 0, ddl_sensors |-> 0]

\* setattr(dc_line, attr_name, value)
setattr(d, attr_name, value) == [d EXCEPT ![attr_name] = value]

\* a mutant of calculate_totals: the double door lock is added twice to the inputs
calculate_totals_ddl_twice(d) ==
    [readers |-> d.smart_card + d.fingerprint,
     inputs  |-> d.door_sensor + d.rex_button + d.push_button + d.break_glass
                 + d.buzzer + d.magnetic_lock + d.ddl_sensors
                 + d.double_door_lock + d.double_door_lock,
     outputs |-> d.magnetic_lock + d.electric_lock + d.ddl_sensors + d.double_door_lock]

\* DCDevice.calculate_totals
calculate_totals(d) ==
    [readers |-> d.smart_card + d.fingerprint,
     inputs  |-> d.door_sensor + d.rex_button + d.push_button + d.break_glass
                 + d.buzzer + d.magnetic_lock + d.ddl_sensors + d.double_door_lock,
     outputs |-> d.magnetic_lock + d.electric_lock + d.ddl_sensors + d.double_door_lock]

---------------------------------------------------------------------------
(* The catalog. *)

\* self.expansion_modules, in list order
expansion_modules ==
    << [name |-> "inout16 (16/0)", inputs |-> 16, outputs |-> 0,  cost |-> 447],
       [name |-> "inout16 (12/4)", inputs |-> 12, outputs |-> 4,  cost |-> 447],
       [name |-> "inout16 (8/8)",  inputs |-> 8,  outputs |-> 8,  cost |-> 447],
       [name |-> "inout16 (4/12)", inputs |-> 4,  outputs |-> 12, cost |-> 447],
       [name |-> "inout16 (0/16)", inputs |-> 0,  outputs |-> 16, cost |-> 447],
       [name |-> "in16",           inputs |-> 16, outputs |-> 0,  cost |-> 470],
       [name |-> "r8",             inputs |-> 0,  outputs |-> 8,  cost |-> 470] >>

---------------------------------------------------------------------------
(* select_controllers_for_dc *)

\* a mutant of max_kt400: at most one kt-400 unit is tried
max_kt400_one(total_readers) == 1 + 0 * total_readers

\* a mutant of max_kt2: no kt-2 unit is ever tried
max_kt2_zero(total_readers) == 0 * total_readers

\* max_kt400, max_kt2, max_kt1
max_kt400(total_readers) == Max(1, (total_readers \div 4) + 2)
max_kt2(total_readers) == Max(1, (total_readers \div 2) + 2)
max_kt1(total_readers) == Max(1, total_readers + 2)

\* the state of the search: best_solution (None at first) and best_cost (inf at first)
NoBest == [best_solution |-> None, best_cost |-> Inf]

\* a mutant of the loop body: a combination must strictly exceed the demand
try_combination_strict(total_readers, kt400, kt2, kt1, best) ==
    LET readers_provided == kt400 * 4 + kt2 * 2 + kt1 * 1
        cost == kt400 * 1400 + kt2 * 750 + kt1 * 450
    IN  IF readers_provided > total_readers /\ CostLess(cost, best.best_cost)
        THEN [best_cost |-> cost,
              best_solution |->
                  [kt400 |-> kt400, kt2 |-> kt2, kt1 |-> kt1,
                   readers_provided |-> readers_provided, cost |-> cost,
                   extra_readers |-> readers_provided - total_readers]]
        ELSE best

\* a mutant of the loop body: the cheapest-so-far test is dropped, the last feasible wins
try_combination_last(total_readers, kt400, kt2, kt1, best) ==
    LET readers_provided == kt400 * 4 + kt2 * 2 + kt1 * 1
        cost == kt400 * 1400 + kt2 * 750 + kt1 * 450
    IN  IF readers_provided >= total_readers
        THEN [best_cost |-> cost,
              best_solution |->
                  [kt400 |-> kt400, kt2 |-> kt2, kt1 |-> kt1,
                   readers_provided |-> readers_provided, cost |-> cost,
                   extra_readers |-> readers_provided - total_readers]]
        ELSE best

\* the body of the innermost loop
try_combination(total_readers, kt400, kt2, kt1, best) ==
    LET readers_provided == kt400 * 4 + kt2 * 2 + kt1 * 1
        cost == kt400 * 1400 + kt2 * 750 + kt1 * 450
    IN  IF readers_provided >= total_readers /\ CostLess(cost, best.best_cost)
        THEN [best_cost |-> cost,
              best_solution |->
                  [kt400 |-> kt400, kt2 |-> kt2, kt1 |-> kt1,
                   readers_provided |-> readers_provided, cost |-> cost,
                   extra_readers |-> readers_provided - total_readers]]
        ELSE best

\* The three nested for-loops.  Each operator walks its range lo..hi in
\* increasing order, the lower half before the upper half, carrying best along;
\* the comparison with the incoming best makes each half finish before the next starts.

\* for kt1 in range(max_kt1 + 1)
RECURSIVE loop_kt1(_, _, _, _, _, _)
loop_kt1(total_readers, kt400, kt2, lo, hi, best) ==
    IF lo > hi THEN best
    ELSE IF lo = hi THEN try_combination(total_readers, kt400, kt2, lo, best)
    ELSE LET mid == (lo + hi) \div 2
             lower == loop_kt1(total_readers, kt400, kt2, lo, mid, best)
         IN  IF lower = best
             THEN loop_kt1(total_readers, kt400, kt2, mid + 1, hi, best)
             ELSE loop_kt1(total_readers, kt400, kt2, mid + 1, hi, lower)

\* for kt2 in range(max_kt2 + 1)
RECURSIVE loop_kt2(_, _, _, _, _)
loop_kt2(total_readers, kt400, lo, hi, best) ==
    IF lo > hi THEN best
    ELSE IF lo = hi
         THEN loop_kt1(total_readers, kt400, lo, 0, max_kt1(total_readers), best)
    ELSE LET mid == (lo + hi) \div 2
             lower == loop_kt2(total_readers, kt400, lo, mid, best)
         IN  IF lower = best
             THEN loop_kt2(total_readers, kt400, mid + 1, hi, best)
             ELSE loop_kt2(total_readers, kt400, mid + 1, hi, lower)

\* for kt400 in range(max_kt400 + 1)
RECURSIVE loop_kt400(_, _, _, _)
loop_kt400(total_readers, lo, hi, best) ==
    IF lo > hi THEN best
    ELSE IF lo = hi
         THEN loop_kt2(total_readers, lo, 0, max_kt2(total_readers), best)
    ELSE LET mid == (lo + hi) \div 2
             lower == loop_kt400(total_readers, lo, mid, best)
         IN  IF lower = best
             THEN loop_kt400(total_readers, mid + 1, hi, best)
             ELSE loop_kt400(total_readers, mid + 1, hi, lower)

\* the search and the return value, for one reader demand
search_controllers(total_readers) ==
    LET best_solution ==
            loop_kt400(total_readers, 0, max_kt400(total_readers), NoBest).best_solution
    IN  IF best_solution # None
        THEN [kt400 |-> best_solution.kt400,
              kt2 |-> best_solution.kt2,
              kt1 |-> best_solution.kt1,
              readers_provided |-> best_solution.readers_provided,
              cost |-> best_solution.cost,
              extra_readers |-> best_solution.extra_readers,
              inputs_provided |-> best_solution.kt400 * 16 + best_solution.kt2 * 8
                                  + best_solution.kt1 * 4,
              outputs_provided |-> best_solution.kt400 * 4 + best_solution.kt2 * 2
                                   + best_solution.kt1 * 2]
        ELSE None


---------------------------------------------------------------------------
(* The inputs of the per-line pipeline. *)

\* two tally fields take every pair of values in 0..MaxCount, the others are 0
PairTallies ==
    { setattr(setattr(DCDevice(1), f, a), g, b) :
        f \in FieldNames, g \in FieldNames, a \in 0 .. MaxCount, b \in 0 .. MaxCount }

\* readers, input-only devices and output-only devices over a grid
GridTallies ==
    { [DCDevice(1) EXCEPT !.smart_card = r, !.door_sensor = i, !.electric_lock = o] :
        r \in 0 .. MaxGridReaders, i \in 0 .. MaxInputs, o \in 0 .. MaxOutputs }

\* readers only
ReaderTallies == { [DCDevice(1) EXCEPT !.smart_card = r] : r \in 0 .. MaxReaderDemand }

\* the line of the spec's scenario; it needs one kt-2
ScenarioLine ==
    [DCDevice(1) EXCEPT !.smart_card = 2, !.door_sensor = 2, !.magnetic_lock = 2]

LineTallies == PairTallies \cup GridTallies \cup ReaderTallies \cup {ScenarioLine}

---------------------------------------------------------------------------
(* The inputs of the session. *)

\* a line with BigReaders smart-card readers and nothing else
BigLine == [DCDevice(1) EXCEPT !.smart_card = BigReaders]

\* the tallies typed when a line is added
AddTallies == {ScenarioLine, BigLine}

\* A typed line is <<>> (just Enter) or <<n>> (an integer n).
\* What is typed for one device of a new line: the value alone, or a negative
\* number and an empty line before it.
Typed(value, noisy) == IF noisy THEN << <<-1>>, <<>>, <<value>> >> ELSE << <<value>> >>

\* what is typed for the eleven devices of a new line
AddInputs ==
    { [f \in FieldNames |-> Typed(t[f], noisy)] : t \in AddTallies, noisy \in BOOLEAN }

\* what is typed for the eleven devices of an edited line: Enter for all of them,
\* or a negative number and then 0 for the smart-card readers and Enter for the rest
EditInputs ==
    { [f \in FieldNames |-> << <<>> >>],
      [f \in FieldNames |-> IF f = "smart_card" THEN << <<-1>>, <<0>> >> ELSE << <<>> >>] }

\* what is typed at "Select option (1-2)" of the license menu
LicenseInputs == { <<>>, <<1>>, <<2>>, <<3>> }

---------------------------------------------------------------------------
(* The controller search, evaluated once per reader demand of the model. *)

ReaderDemands ==
    {0} \cup { t.smart_card + t.fingerprint : t \in LineTallies \cup AddTallies }

\* search_controllers, tabulated over ReaderDemands
selection == [total_readers \in ReaderDemands |-> search_controllers(total_readers)]

\* KantechDCCalculator.select_controllers_for_dc
select_controllers_for_dc(dc_requirements) ==
    LET total_readers == dc_requirements.readers
    IN  IF total_readers \in ReaderDemands
        THEN selection[total_readers]
        ELSE search_controllers(total_readers)

---------------------------------------------------------------------------
(* calculate_expansion_for_dc *)

\* a mutant: the shortages are not clamped at 0
shortages_unclamped(dc_inputs, dc_outputs, controller_inputs, controller_outputs) ==
    [input_shortage |-> dc_inputs - controller_inputs,
     output_shortage |-> dc_outputs - controller_outputs]

\* input_shortage and output_shortage
shortages(dc_inputs, dc_outputs, controller_inputs, controller_outputs) ==
    [input_shortage |-> Max(0, dc_inputs - controller_inputs),
     output_shortage |-> Max(0, dc_outputs - controller_outputs)]

\* best_solution = {'modules': [], 'cost': float('inf')}
NoExpansion == [modules |-> <<>>, cost |-> Inf]

\* for module in self.expansion_modules: the single-module loop, from index i
RECURSIVE loop_single(_, _, _, _)
loop_single(input_shortage, output_shortage, i, best_solution) ==
    IF i > Len(expansion_modules) THEN best_solution
    ELSE LET module == expansion_modules[i]
             solution == [modules |-> <<module.name>>, cost |-> module.cost]
         IN  IF /\ module.inputs >= input_shortage
                /\ module.outputs >= output_shortage
                /\ CostLess(solution.cost, best_solution.cost)
             THEN loop_single(input_shortage, output_shortage, i + 1, solution)
             ELSE loop_single(input_shortage, output_shortage, i + 1, best_solution)

\* for module2 in self.expansion_modules: the inner loop of the pair search
RECURSIVE loop_module2(_, _, _, _, _)
loop_module2(input_shortage, output_shortage, i, j, best_solution) ==
    IF j > Len(expansion_modules) THEN best_solution
    ELSE LET module1 == expansion_modules[i]
             module2 == expansion_modules[j]
             total_inputs == module1.inputs + module2.inputs
             total_outputs == module1.outputs + module2.outputs
             total_cost == module1.cost + module2.cost
             solution == [modules |-> <<module1.name, module2.name>>, cost |-> total_cost]
         IN  IF /\ total_inputs >= input_shortage
                /\ total_outputs >= output_shortage
                /\ CostLess(solution.cost, best_solution.cost)
             THEN loop_module2(input_shortage, output_shortage, i, j + 1, solution)
             ELSE loop_module2(input_shortage, output_shortage, i, j + 1, best_solution)

\* for module1 in self.expansion_modules: the outer loop of the pair search
RECURSIVE loop_module1(_, _, _, _)
loop_module1(input_shortage, output_shortage, i, best_solution) ==
    IF i > Len(expansion_modules) THEN best_solution
    ELSE LET tried == loop_module2(input_shortage, output_shortage, i, 1, best_solution)
         IN  IF tried = best_solution
             THEN loop_module1(input_shortage, output_shortage, i + 1, best_solution)
             ELSE loop_module1(input_shortage, output_shortage, i + 1, tried)

\* a mutant of the two searches: the pair search starts afresh and forgets the single module
search_modules_pairs_afresh(input_shortage, output_shortage) ==
    LET single == loop_single(input_shortage, output_shortage, 1, NoExpansion)
        pair == loop_module1(input_shortage, output_shortage, 1, NoExpansion)
    IN  IF pair.cost # Inf THEN pair ELSE single

\* the single-module search followed by the two-module search
search_modules(input_shortage, output_shortage) ==
    loop_module1(input_shortage, output_shortage, 1,
                 loop_single(input_shortage, output_shortage, 1, NoExpansion))

\* a mutant of the fallback: the unit counts are rounded down
specialized_modules_rounded_down(input_shortage, output_shortage) ==
    LET in16_needed == input_shortage \div 16
        r8_needed == output_shortage \div 8
        with_in == IF input_shortage > 0
                   THEN [modules |-> <<"in16 (x" \o ToString(in16_needed) \o ")">>,
                         cost |-> 470 * in16_needed]
                   ELSE [modules |-> <<>>, cost |-> 0]
    IN  IF output_shortage > 0
        THEN [modules |-> Append(with_in.modules, "r8 (x" \o ToString(r8_needed) \o ")"),
              cost |-> with_in.cost + 470 * r8_needed]
        ELSE with_in

\* a mutant of the fallback: r8 is sized as if it had 16 outputs
specialized_modules_r8_16(input_shortage, output_shortage) ==
    LET in16_needed == CeilDiv(input_shortage, 16)
        r8_needed == CeilDiv(output_shortage, 16)
        with_in == IF input_shortage > 0
                   THEN [modules |-> <<"in16 (x" \o ToString(in16_needed) \o ")">>,
                         cost |-> 470 * in16_needed]
                   ELSE [modules |-> <<>>, cost |-> 0]
    IN  IF output_shortage > 0
        THEN [modules |-> Append(with_in.modules, "r8 (x" \o ToString(r8_needed) \o ")"),
              cost |-> with_in.cost + 470 * r8_needed]
        ELSE with_in

\* the fallback: in16 and r8 modules sized independently
specialized_modules(input_shortage, output_shortage) ==
    LET in16_needed == CeilDiv(input_shortage, 16)
        r8_needed == CeilDiv(output_shortage, 8)
        with_in == IF input_shortage > 0
                   THEN [modules |-> <<"in16 (x" \o ToString(in16_needed) \o ")">>,
                         cost |-> 470 * in16_needed]
                   ELSE [modules |-> <<>>, cost |-> 0]
    IN  IF output_shortage > 0
        THEN [modules |-> Append(with_in.modules, "r8 (x" \o ToString(r8_needed) \o ")"),
              cost |-> with_in.cost + 470 * r8_needed]
        ELSE with_in

\* a mutant: no early return when nothing is short
expansion_for_shortage_no_early_return(input_shortage, output_shortage) ==
    LET best_solution == search_modules(input_shortage, output_shortage)
    IN  IF best_solution.cost = Inf
        THEN specialized_modules(input_shortage, output_shortage)
        ELSE best_solution

\* calculate_expansion_for_dc once the shortages are known
expansion_for_shortage(input_shortage, output_shortage) ==
    IF input_shortage = 0 /\ output_shortage = 0
    THEN [modules |-> <<>>, cost |-> 0]
    ELSE LET best_solution == search_modules(input_shortage, output_shortage)
         IN  IF best_solution.cost = Inf
             THEN specialized_modules(input_shortage, output_shortage)
             ELSE best_solution

\* KantechDCCalculator.calculate_expansion_for_dc
calculate_expansion_for_dc(dc_inputs, dc_outputs, controller_inputs, controller_outputs) ==
    LET s == shortages(dc_inputs, dc_outputs, controller_inputs, controller_outputs)
    IN  expansion_for_shortage(s.input_shortage, s.output_shortage)

---------------------------------------------------------------------------
(* calculate_single_dc_line *)

\* KantechDCCalculator.calculate_single_dc_line: the line result, or None
calculate_single_dc_line(d) ==
    LET totals == calculate_totals(d)
        controllers == select_controllers_for_dc(totals)
    IN  IF controllers = None THEN None
        ELSE LET exp == calculate_expansion_for_dc(totals.inputs, totals.outputs,
                            controllers.inputs_provided, controllers.outputs_provided)
             IN  [dc_number |-> d.dc_number,
                  requirements |-> totals,
                  controllers |-> controllers,
                  expansion |-> exp,
                  total_cost |-> controllers.cost + exp.cost]

---------------------------------------------------------------------------
(* The session at start: KantechDCCalculator.__init__ *)

NoReport == [op |-> "none", outcome |-> "none"]

SessionInit ==
    /\ dc_lines = <<>>
    /\ all_results = <<>>
    /\ grand_total = <<>>
    /\ license_result = <<>>
    /\ single_result = <<>>
    /\ report = NoReport

\* no call of calculate_single_dc_line is being followed
LineIdle ==
    /\ dc_line = DCDevice(1)
    /\ pc = "idle"
    /\ dc_totals = <<>>
    /\ controller_info = <<>>
    /\ expansion = <<>>
    /\ result = <<>>

---------------------------------------------------------------------------
(* calculate_single_dc_line, one step at a time, on every tally of LineTallies *)

InitLine ==
    /\ SessionInit
    /\ dc_line \in LineTallies
    /\ pc = "start"
    /\ dc_totals = <<>>
    /\ controller_info = <<>>
    /\ expansion = <<>>
    /\ result = <<>>

\* dc_totals = dc_line.calculate_totals()
StepTotals ==
    /\ pc = "start"
    /\ dc_totals' = <<calculate_totals(dc_line)>>
    /\ pc' = "totals"
    /\ UNCHANGED <<dc_line, controller_info, expansion, result>>
    /\ UNCHANGED session_vars

\* controller_info = self.select_controllers_for_dc(dc_totals); None ends the call
StepSelect ==
    /\ pc = "totals"
    /\ LET info == select_controllers_for_dc(dc_totals[1])
       IN  /\ controller_info' = <<info>>
           /\ IF info = None
              THEN pc' = "done" /\ result' = <<None>>
              ELSE pc' = "selected" /\ result' = result
    /\ UNCHANGED <<dc_line, dc_totals, expansion>>
    /\ UNCHANGED session_vars

\* expansion = self.calculate_expansion_for_dc(...)
StepExpansion ==
    /\ pc = "selected"
    /\ expansion' = <<calculate_expansion_for_dc(
                          dc_totals[1].inputs, dc_totals[1].outputs,
                          controller_info[1].inputs_provided,
                          controller_info[1].outputs_provided)>>
    /\ pc' = "expanded"
    /\ UNCHANGED <<dc_line, dc_totals, controller_info, result>>
    /\ UNCHANGED session_vars

\* total_cost and the returned line result
StepReturn ==
    /\ pc = "expanded"
    /\ result' = <<[dc_number |-> dc_line.dc_number,
                    requirements |-> dc_totals[1],
                    controllers |-> controller_info[1],
                    expansion |-> expansion[1],
                    total_cost |-> controller_info[1].cost + expansion[1].cost]>>
    /\ pc' = "done"
    /\ UNCHANGED <<dc_line, dc_totals, controller_info, expansion>>
    /\ UNCHANGED session_vars

NextLine == StepTotals \/ StepSelect \/ StepExpansion \/ StepReturn

SpecLine == InitLine /\ [][NextLine]_vars

---------------------------------------------------------------------------
(* The interactive session: the menu operations. *)

\* the while-loop of add_dc_line_interactive for one device: the first typed
\* line that is an integer >= 0 (an empty line raises ValueError, a negative
\* number is refused; both ask again)
RECURSIVE add_read(_)
add_read(typed) ==
    LET line == Head(typed)
    IN  IF line # <<>> /\ line[1] >= 0 THEN line[1] ELSE add_read(Tail(typed))

\* a mutant of add_line: the new line is numbered like the first one
add_line_number_one(lines, typed) ==
    Append(lines,
           [f \in {"dc_number"} \cup FieldNames |->
               IF f = "dc_number" THEN 1 ELSE add_read(typed[f])])

\* add_dc_line_interactive: self.dc_lines after the new line is appended
add_line(lines, typed) ==
    Append(lines,
           [f \in {"dc_number"} \cup FieldNames |->
               IF f = "dc_number" THEN Len(lines) + 1 ELSE add_read(typed[f])])

\* a mutant of edit_read: a negative number is written like any other
edit_read_unchecked(current_value, typed) ==
    LET line == Head(typed)
    IN  IF line = <<>> THEN current_value ELSE line[1]

\* the while-loop of edit_dc_line_interactive for one device: an empty line
\* keeps the current value, a negative number is refused and asks again
RECURSIVE edit_read(_, _)
edit_read(current_value, typed) ==
    LET line == Head(typed)
    IN  IF line = <<>> THEN current_value
        ELSE IF line[1] < 0 THEN edit_read(current_value, Tail(typed))
        ELSE line[1]

\* a mutant of find_line: a number that no line has finds the last line
find_line_or_last(lines, dc_num) ==
    IF \E i \in 1 .. Len(lines) : lines[i].dc_number = dc_num
    THEN CHOOSE i \in 1 .. Len(lines) :
             /\ lines[i].dc_number = dc_num
             /\ \A j \in 1 .. (i - 1) : lines[j].dc_number # dc_num
    ELSE Len(lines)

\* next((dc for dc in self.dc_lines if dc.dc_number == dc_num), None): its index, 0 for None
find_line(lines, dc_num) ==
    IF \E i \in 1 .. Len(lines) : lines[i].dc_number = dc_num
    THEN CHOOSE i \in 1 .. Len(lines) :
             /\ lines[i].dc_number = dc_num
             /\ \A j \in 1 .. (i - 1) : lines[j].dc_number # dc_num
    ELSE 0

\* edit_dc_line_interactive on the line at index i: every device is read in turn
edit_line(lines, i, typed) ==
    [lines EXCEPT ![i] =
        [f \in {"dc_number"} \cup FieldNames |->
            IF f = "dc_number" THEN lines[i].dc_number
            ELSE edit_read(lines[i][f], typed[f])]]

\* menu choice 1
AddLine(typed) ==
    /\ Len(dc_lines) < MaxLines
    /\ dc_lines' = add_line(dc_lines, typed)
    /\ report' = [op |-> "add", outcome |-> "added", dc_number |-> Len(dc_lines) + 1]
    /\ UNCHANGED <<all_results, grand_total, license_result, single_result>>
    /\ UNCHANGED line_vars

\* menu choice 2
EditLine(dc_num, typed) ==
    /\ IF dc_lines = <<>>
       THEN /\ report' = [op |-> "edit", outcome |-> "no_lines", dc_number |-> dc_num]
            /\ dc_lines' = dc_lines
       ELSE IF find_line(dc_lines, dc_num) = 0
       THEN /\ report' = [op |-> "edit", outcome |-> "not_found", dc_number |-> dc_num]
            /\ dc_lines' = dc_lines
       ELSE /\ report' = [op |-> "edit", outcome |-> "updated", dc_number |-> dc_num]
            /\ dc_lines' = edit_line(dc_lines, find_line(dc_lines, dc_num), typed)
    /\ UNCHANGED <<all_results, grand_total, license_result, single_result>>
    /\ UNCHANGED line_vars

\* menu choice 8
ClearAll ==
    /\ dc_lines' = <<>>
    /\ report' = [op |-> "clear", outcome |-> "cleared"]
    /\ UNCHANGED <<all_results, grand_total, license_result, single_result>>
    /\ UNCHANGED line_vars

---------------------------------------------------------------------------
(* calculate_total_controllers and calculate_license_requirements *)

\* the for-loop of calculate_total_controllers over self.dc_lines[i..]
RECURSIVE sum_controllers(_, _, _)
sum_controllers(lines, i, totals) ==
    IF i > Len(lines) THEN totals
    ELSE LET controllers == select_controllers_for_dc(calculate_totals(lines[i]))
         IN  IF controllers # None
             THEN sum_controllers(lines, i + 1,
                      [kt400 |-> totals.kt400 + controllers.kt400,
                       kt2 |-> totals.kt2 + controllers.kt2,
                       kt1 |-> totals.kt1 + controllers.kt1])
             ELSE sum_controllers(lines, i + 1, totals)

\* KantechDCCalculator.calculate_total_controllers
calculate_total_controllers(lines) ==
    IF lines = <<>>
    THEN [total_controllers |-> 0, kt400 |-> 0, kt2 |-> 0, kt1 |-> 0]
    ELSE LET t == sum_controllers(lines, 1, [kt400 |-> 0, kt2 |-> 0, kt1 |-> 0])
         IN  [total_controllers |-> t.kt400 + t.kt2 + t.kt1,
              kt400 |-> t.kt400, kt2 |-> t.kt2, kt1 |-> t.kt1,
              breakdown |-> "kt-400: " \o ToString(t.kt400) \o ", kt-2: "
                            \o ToString(t.kt2) \o ", kt-1: " \o ToString(t.kt1)]

\* self.license_info: names and costs
license_info ==
    [special |-> [name |-> "Kantech Special License", max_controllers |-> 32, cost |-> 0],
     corporate |-> [name |-> "Kantech Corporate License", min_controllers |-> 33, cost |-> 0],
     global |-> [name |-> "Global License", cost |-> 0],
     gateway |-> [name |-> "Gateway License", cost |-> 500],
     redundancy |-> [name |-> "Redundancy License", cost |-> 750]]

\* a mutant of license_type: 32 controllers already need the corporate license
license_type_strict(total_controllers, use_redundancy) ==
    IF use_redundancy THEN "global"
    ELSE IF total_controllers < 32 THEN "special"
    ELSE "corporate"

\* a mutant of license_type: the controller count is looked at first
license_type_count_first(total_controllers, use_redundancy) ==
    IF total_controllers <= 32 THEN "special"
    ELSE IF use_redundancy THEN "global"
    ELSE "corporate"

\* license_type as calculate_license_requirements chooses it
license_type(total_controllers, use_redundancy) ==
    IF use_redundancy THEN "global"
    ELSE IF total_controllers <= 32 THEN "special"
    ELSE "corporate"

\* a mutant of license_decision: the count of 0 is not turned away
license_decision_no_zero_check(controller_totals, use_redundancy) ==
    LET total_controllers == controller_totals.total_controllers
    IN  [total_controllers |-> total_controllers,
         primary_license |-> license_type(total_controllers, use_redundancy),
         use_redundancy |-> use_redundancy,
         additional_licenses |->
             IF use_redundancy
             THEN << [name |-> license_info.gateway.name, cost |-> license_info.gateway.cost],
                     [name |-> license_info.redundancy.name,
                      cost |-> license_info.redundancy.cost] >>
             ELSE <<>>,
         total_license_cost |->
             IF use_redundancy
             THEN license_info.gateway.cost + license_info.redundancy.cost
             ELSE 0,
         controller_breakdown |-> controller_totals]

\* calculate_license_requirements: what it stores in self.license_result,
\* or None when it returns early because no controller is configured
license_decision(controller_totals, use_redundancy) ==
    LET total_controllers == controller_totals.total_controllers
    IN  IF total_controllers = 0 THEN None
        ELSE [total_controllers |-> total_controllers,
              primary_license |-> license_type(total_controllers, use_redundancy),
              use_redundancy |-> use_redundancy,
              additional_licenses |->
                  IF use_redundancy
                  THEN << [name |-> license_info.gateway.name,
                           cost |-> license_info.gateway.cost],
                          [name |-> license_info.redundancy.name,
                           cost |-> license_info.redundancy.cost] >>
                  ELSE <<>>,
              total_license_cost |->
                  IF use_redundancy
                  THEN license_info.gateway.cost + license_info.redundancy.cost
                  ELSE 0,
              controller_breakdown |-> controller_totals]

\* the LICENSE SUMMARY that calculate_license_requirements prints
license_summary(decision) ==
    [op |-> "license",
     outcome |-> "summary",
     use_redundancy |-> decision.use_redundancy,
     total_controllers |-> decision.total_controllers,
     primary |->
         IF decision.use_redundancy THEN license_info.global.name
         ELSE IF decision.total_controllers <= 32 THEN license_info.special.name
         ELSE license_info.corporate.name,
     additional |->
         IF decision.use_redundancy
         THEN [i \in 1 .. Len(decision.additional_licenses) |->
                  decision.additional_licenses[i].name]
         ELSE <<>>,
     total_license_cost |->
         IF decision.use_redundancy THEN decision.total_license_cost ELSE 0]

\* menu choice 6: calculate_license_menu, then calculate_license_requirements
CalculateLicense(typed) ==
    /\ IF typed = <<>>
       THEN \* int('') raises ValueError: "Invalid input!"
            /\ report' = [op |-> "license", outcome |-> "invalid_input"]
            /\ license_result' = license_result
       ELSE LET use_redundancy == (typed[1] = 1)
                decision == license_decision(calculate_total_controllers(dc_lines),
                                             use_redundancy)
            IN  IF decision = None
                THEN /\ report' = [op |-> "license", outcome |-> "no_controllers",
                                   use_redundancy |-> use_redundancy]
                     /\ license_result' = license_result
                ELSE /\ report' = license_summary(decision)
                     /\ license_result' = <<decision>>
    /\ UNCHANGED <<dc_lines, all_results, grand_total, single_result>>
    /\ UNCHANGED line_vars

---------------------------------------------------------------------------
(* calculate_all_dc_lines *)

\* a mutant of the first loop: each line's shortage is taken against the
\* capacity of the controllers of all lines together
RECURSIVE collect_results_pooled(_, _, _)
collect_results_pooled(lines, i, results) ==
    IF i > Len(lines) THEN results
    ELSE LET own == calculate_single_dc_line(lines[i])
             all_inputs == [k \in 1 .. Len(lines) |->
                 calculate_single_dc_line(lines[k]).controllers.inputs_provided
                 - (IF k = i THEN 0 ELSE calculate_totals(lines[k]).inputs)]
             all_outputs == [k \in 1 .. Len(lines) |->
                 calculate_single_dc_line(lines[k]).controllers.outputs_provided
                 - (IF k = i THEN 0 ELSE calculate_totals(lines[k]).outputs)]
             sum_inputs == all_inputs[1] + (IF Len(lines) > 1 THEN all_inputs[2] ELSE 0)
                           + (IF Len(lines) > 2 THEN all_inputs[3] ELSE 0)
             sum_outputs == all_outputs[1] + (IF Len(lines) > 1 THEN all_outputs[2] ELSE 0)
                            + (IF Len(lines) > 2 THEN all_outputs[3] ELSE 0)
             exp == calculate_expansion_for_dc(own.requirements.inputs,
                        own.requirements.outputs, sum_inputs, sum_outputs)
             pooled == [own EXCEPT !.expansion = exp,
                                   !.total_cost = own.controllers.cost + exp.cost]
         IN  collect_results_pooled(lines, i + 1, Append(results, pooled))

\* a mutant of the first loop: a line equal to the one before it is not calculated again
RECURSIVE collect_results_distinct(_, _, _)
collect_results_distinct(lines, i, results) ==
    IF i > Len(lines) THEN results
    ELSE IF i > 1 /\ calculate_totals(lines[i]) = calculate_totals(lines[i - 1])
         THEN collect_results_distinct(lines, i + 1, results)
         ELSE collect_results_distinct(lines, i + 1,
                  Append(results, calculate_single_dc_line(lines[i])))

\* for dc_line in self.dc_lines: the results of the lines from index i on are
\* appended to results; a line whose calculation returned None is passed over
RECURSIVE collect_results(_, _, _)
collect_results(lines, i, results) ==
    IF i > Len(lines) THEN results
    ELSE LET line_result == calculate_single_dc_line(lines[i])
         IN  IF line_result # None
             THEN collect_results(lines, i + 1, Append(results, line_result))
             ELSE collect_results(lines, i + 1, results)

\* grand_total_cost, total_kt400, total_kt2, total_kt1, total_expansion_cost before the loop
NoTotals ==
    [grand_total_cost |-> 0, total_kt400 |-> 0, total_kt2 |-> 0, total_kt1 |-> 0,
     total_expansion_cost |-> 0]

\* a mutant of the second loop: the grand total leaves the expansion cost out
RECURSIVE accumulate_totals_controllers_only(_, _, _)
accumulate_totals_controllers_only(results, i, totals) ==
    IF i > Len(results) THEN totals
    ELSE accumulate_totals_controllers_only(results, i + 1,
             [grand_total_cost |-> totals.grand_total_cost + results[i].controllers.cost,
              total_kt400 |-> totals.total_kt400 + results[i].controllers.kt400,
              total_kt2 |-> totals.total_kt2 + results[i].controllers.kt2,
              total_kt1 |-> totals.total_kt1 + results[i].controllers.kt1,
              total_expansion_cost |->
                  totals.total_expansion_cost + results[i].expansion.cost])

\* for result in all_results: "Accumulate totals"
RECURSIVE accumulate_totals(_, _, _)
accumulate_totals(results, i, totals) ==
    IF i > Len(results) THEN totals
    ELSE accumulate_totals(results, i + 1,
             [grand_total_cost |-> totals.grand_total_cost + results[i].total_cost,
              total_kt400 |-> totals.total_kt400 + results[i].controllers.kt400,
              total_kt2 |-> totals.total_kt2 + results[i].controllers.kt2,
              total_kt1 |-> totals.total_kt1 + results[i].controllers.kt1,
              total_expansion_cost |->
                  totals.total_expansion_cost + results[i].expansion.cost])

\* what calculate_all_dc_lines prints below the table: the grand total, the
\* controllers needed with their cost, and the license reference
fleet_summary(results) ==
    LET totals == accumulate_totals(results, 1, NoTotals)
        total_controllers == totals.total_kt400 + totals.total_kt2 + totals.total_kt1
    IN  [op |-> "all",
         outcome |-> "summary",
         lines |-> [i \in 1 .. Len(results) |-> results[i].dc_number],
         grand_total |-> totals.grand_total_cost,
         total_kt400 |-> totals.total_kt400,
         total_kt2 |-> totals.total_kt2,
         total_kt1 |-> totals.total_kt1,
         total_controller_cost |->
             totals.total_kt400 * 1400 + totals.total_kt2 * 750 + totals.total_kt1 * 450,
         total_expansion_cost |-> totals.total_expansion_cost,
         total_controllers |-> total_controllers,
         license_reference |->
             IF total_controllers <= 32 THEN "Kantech Special License"
             ELSE "Kantech Corporate License"]

\* menu choice 5
CalculateAll ==
    /\ IF dc_lines = <<>>
       THEN /\ report' = [op |-> "all", outcome |-> "no_lines"]
            /\ UNCHANGED <<all_results, grand_total>>
       ELSE LET results == collect_results(dc_lines, 1, <<>>)
            IN  IF results = <<>>
                THEN /\ report' = [op |-> "all", outcome |-> "no_results"]
                     /\ UNCHANGED <<all_results, grand_total>>
                ELSE /\ report' = fleet_summary(results)
                     /\ all_results' = <<results>>
                     /\ grand_total' =
                            <<accumulate_totals(results, 1, NoTotals).grand_total_cost>>
    /\ UNCHANGED <<dc_lines, license_result, single_result>>
    /\ UNCHANGED line_vars

---------------------------------------------------------------------------
(* calculate_specific_dc_line *)

\* self.single_result after one more result is appended; the list is created first
\* when the attribute does not exist yet
append_single_result(stored, line_result) ==
    IF stored = <<>> THEN << <<line_result>> >> ELSE << Append(stored[1], line_result) >>

\* the results kept in self.single_result so far
single_results_kept == IF single_result = <<>> THEN 0 ELSE Len(single_result[1])

\* menu choice 4; typed is what is entered at "Enter DC line number to calculate"
CalculateSpecific(typed) ==
    /\ IF dc_lines = <<>>
       THEN /\ report' = [op |-> "specific", outcome |-> "no_lines"]
            /\ single_result' = single_result
       ELSE IF typed = <<>>
       THEN \* int('') raises ValueError
            /\ report' = [op |-> "specific", outcome |-> "invalid_input"]
            /\ single_result' = single_result
       ELSE IF find_line(dc_lines, typed[1]) = 0
       THEN /\ report' = [op |-> "specific", outcome |-> "not_found",
                          dc_number |-> typed[1]]
            /\ single_result' = single_result
       ELSE LET line_result ==
                    calculate_single_dc_line(dc_lines[find_line(dc_lines, typed[1])])
            IN  IF line_result # None
                THEN /\ single_results_kept < MaxSingleResults
                     /\ report' = [op |-> "specific", outcome |-> "calculated",
                                   dc_number |-> typed[1],
                                   total_cost |-> line_result.total_cost]
                     /\ single_result' = append_single_result(single_result, line_result)
                ELSE /\ report' = [op |-> "specific", outcome |-> "no_controllers",
                                   dc_number |-> typed[1]]
                     /\ single_result' = single_result
    /\ UNCHANGED <<dc_lines, all_results, grand_total, license_result>>
    /\ UNCHANGED line_vars

---------------------------------------------------------------------------
(* export_all_results_to_csv *)

\* sum(...) over a list of numbers
RECURSIVE sum(_)
sum(values) == IF values = <<>> THEN 0 ELSE Head(values) + sum(Tail(values))

\* the LICENSE INFO rows, written when self.license_result exists
license_rows(stored) ==
    IF stored = <<>> THEN <<>>
    ELSE LET info == stored[1]
         IN  << [system |-> IF info.use_redundancy THEN "Redundant" ELSE "Non-Redundant",
                 total_controllers |-> info.total_controllers,
                 primary_license |->
                     IF info.use_redundancy THEN license_info.global.name
                     ELSE IF info.total_controllers <= 32 THEN license_info.special.name
                     ELSE license_info.corporate.name,
                 additional_licenses |->
                     IF info.use_redundancy THEN info.additional_licenses ELSE <<>>,
                 total_license_cost |->
                     IF info.use_redundancy THEN <<info.total_license_cost>> ELSE <<>>] >>

\* the GRAND TOTAL row
grand_total_row(results, stored_grand_total) ==
    [KT400 |-> sum([i \in 1 .. Len(results) |-> results[i].controllers.kt400]),
     KT2 |-> sum([i \in 1 .. Len(results) |-> results[i].controllers.kt2]),
     KT1 |-> sum([i \in 1 .. Len(results) |-> results[i].controllers.kt1]),
     Controller_Cost |-> sum([i \in 1 .. Len(results) |-> results[i].controllers.cost]),
     Expansion_Cost |-> sum([i \in 1 .. Len(results) |-> results[i].expansion.cost]),
     Total_Cost |-> stored_grand_total]

\* menu choice 7: the rows handed to the CSV writer
ExportAll ==
    /\ IF all_results = <<>>
       THEN report' = [op |-> "export", outcome |-> "not_calculated"]
       ELSE report' = [op |-> "export", outcome |-> "exported",
                       lines |-> all_results[1],
                       license |-> license_rows(license_result),
                       grand_total |-> grand_total_row(all_results[1], grand_total[1])]
    /\ UNCHANGED <<dc_lines, all_results, grand_total, license_result, single_result>>
    /\ UNCHANGED line_vars

---------------------------------------------------------------------------
(* The session: lines are added, edited and cleared, and the license is
   calculated, in any order. *)

Init == SessionInit /\ LineIdle

Next ==
    \/ \E typed \in AddInputs : AddLine(typed)
    \/ \E dc_num \in 1 .. (MaxLines + 1), typed \in EditInputs : EditLine(dc_num, typed)
    \/ ClearAll
    \/ \E typed \in LicenseInputs : CalculateLicense(typed)

Spec == Init /\ [][Next]_vars

---------------------------------------------------------------------------
(* The session with the fleet calculation and the export: lines like the one
   of the scenario are added, edited and cleared; all lines are calculated
   and the results are exported, in any order. *)

\* what is typed for the eleven devices of a new line: the scenario's line
FleetAddInputs == { [f \in FieldNames |-> Typed(ScenarioLine[f], FALSE)] }

\* what is typed for the eleven devices of an edited line: Enter for all of
\* them, or 7 smart-card readers and 30 door sensors and Enter for the rest
FleetEditInputs ==
    { [f \in FieldNames |-> << <<>> >>],
      [f \in FieldNames |-> IF f = "smart_card" THEN << <<7>> >>
                            ELSE IF f = "door_sensor" THEN << <<30>> >>
                            ELSE << <<>> >>] }

NextFleet ==
    \/ \E typed \in FleetAddInputs : AddLine(typed)
    \/ \E dc_num \in 1 .. MaxLines, typed \in FleetEditInputs : EditLine(dc_num, typed)
    \/ ClearAll
    \/ CalculateAll
    \/ ExportAll

SpecFleet == Init /\ [][NextFleet]_vars

---------------------------------------------------------------------------
(* The same session with the license calculation; only the first line is edited. *)

NextLicensedFleet ==
    \/ \E typed \in FleetAddInputs : AddLine(typed)
    \/ \E typed \in FleetEditInputs : EditLine(1, typed)
    \/ ClearAll
    \/ CalculateAll
    \/ \E typed \in {<<1>>, <<2>>} : CalculateLicense(typed)
    \/ ExportAll

SpecLicensedFleet == Init /\ [][NextLicensedFleet]_vars

---------------------------------------------------------------------------
(* The session with the calculation of one chosen line; the line numbers asked
   for in an edit are the first line's and two that no line has. *)

\* what is typed at "Enter DC line number to calculate": Enter, or a number
SpecificInputs == { <<>> } \cup { <<n>> : n \in 0 .. (MaxLines + 1) }

NextRecompute ==
    \/ \E typed \in FleetAddInputs : AddLine(typed)
    \/ \E dc_num \in {0, 1, MaxLines + 1}, typed \in FleetEditInputs :
           EditLine(dc_num, typed)
    \/ ClearAll
    \/ \E typed \in SpecificInputs : CalculateSpecific(typed)

SpecRecompute == Init /\ [][NextRecompute]_vars

---------------------------------------------------------------------------
(* Claims about the per-line pipeline, checked under SpecLine. *)

\* the selector has returned and the expansion step has not run yet
JustSelected == controller_info # <<>> /\ expansion = <<>>

\* C1: for every reader demand r the chosen controllers provide
\* 4*kt400 + 2*kt2 + kt1 >= r readers, and their cost 1400*kt400 + 750*kt2 +
\* 450*kt1 is not above the cost of any combination that provides >= r readers,
\* also of those beyond the search bounds (up to OracleSlack more units each).
C1_SelectorCheapest ==
    JustSelected =>
        LET r == dc_totals[1].readers
            c == controller_info[1]
        IN  /\ c # None
            /\ c.kt400 >= 0 /\ c.kt2 >= 0 /\ c.kt1 >= 0
            /\ c.readers_provided = 4 * c.kt400 + 2 * c.kt2 + c.kt1
            /\ c.readers_provided >= r
            /\ c.cost = 1400 * c.kt400 + 750 * c.kt2 + 450 * c.kt1
            /\ \A a \in 0 .. ((r \div 4) + 2 + OracleSlack) :
               \A b \in 0 .. ((r \div 2) + 2 + OracleSlack) :
               \A k \in 0 .. (r + 2 + OracleSlack) :
                   (4 * a + 2 * b + k >= r) => (1400 * a + 750 * b + 450 * k >= c.cost)

\* C1 witness: a demand of 7 readers was served by one kt-400, one kt-2 and one kt-1
C1_Witness ==
    /\ JustSelected
    /\ dc_totals[1].readers = 7
    /\ controller_info[1] # None
    /\ controller_info[1].kt400 = 1 /\ controller_info[1].kt2 = 1
    /\ controller_info[1].kt1 = 1 /\ controller_info[1].cost = 2600

\* C2: readers = smart_card + fingerprint; inputs = door_sensor + rex_button +
\* push_button + break_glass + buzzer + magnetic_lock + ddl_sensors +
\* double_door_lock; outputs = magnetic_lock + electric_lock + ddl_sensors +
\* double_door_lock; one more double door lock is one more input and one more output.
C2_Totals ==
    dc_totals # <<>> =>
        LET d == dc_line
            more == calculate_totals(setattr(d, "double_door_lock", d.double_door_lock + 1))
        IN  /\ dc_totals[1].readers = d.smart_card + d.fingerprint
            /\ dc_totals[1].inputs =
                   d.door_sensor + d.rex_button + d.push_button + d.break_glass
                   + d.buzzer + d.magnetic_lock + d.ddl_sensors + d.double_door_lock
            /\ dc_totals[1].outputs =
                   d.magnetic_lock + d.electric_lock + d.ddl_sensors + d.double_door_lock
            /\ more.inputs = dc_totals[1].inputs + 1
            /\ more.outputs = dc_totals[1].outputs + 1
            /\ more.readers = dc_totals[1].readers

\* C2 witness: totals of a line with double door locks and magnetic locks
C2_Witness ==
    /\ dc_totals # <<>>
    /\ dc_line.double_door_lock = 3 /\ dc_line.magnetic_lock = 2
    /\ dc_totals[1].inputs = 5 /\ dc_totals[1].outputs = 5

\* the tally with one more of device f
OneMore(d, f) == setattr(d, f, d[f] + 1)

ReaderFields == {"smart_card", "fingerprint"}

\* C3 as stated: one more of any device never lowers the line's total cost.
C3_MonotoneAllFields ==
    pc = "done" =>
        \A f \in FieldNames :
            calculate_single_dc_line(OneMore(dc_line, f)).total_cost >= result[1].total_cost

\* C3 as amended: one more of any of the nine devices that are not readers never
\* lowers the line's total cost, and one more reader never lowers the controller cost.
C3_MonotoneNonReaderFields ==
    pc = "done" =>
        /\ \A f \in FieldNames \ ReaderFields :
               calculate_single_dc_line(OneMore(dc_line, f)).total_cost
                   >= result[1].total_cost
        /\ \A f \in ReaderFields :
               calculate_single_dc_line(OneMore(dc_line, f)).controllers.cost
                   >= result[1].controllers.cost

\* C3 witness: one reader and four door sensors cost 450; a fifth door sensor
\* raises the total to 897
C3_Witness ==
    /\ pc = "done"
    /\ dc_line.smart_card = 1 /\ dc_line.door_sensor = 4
    /\ result[1].total_cost = 450
    /\ calculate_single_dc_line(OneMore(dc_line, "door_sensor")).total_cost = 897

\* C7: the selector never returns None; for a demand of 0 readers it returns
\* the allocation of no units at cost 0 providing nothing, and
\* calculate_single_dc_line goes on to return a line result built on it.
C7_NeverInfeasible ==
    /\ controller_info # <<>> =>
           /\ controller_info[1] # None
           /\ dc_totals[1].readers = 0 =>
                  controller_info[1] =
                      [kt400 |-> 0, kt2 |-> 0, kt1 |-> 0, readers_provided |-> 0,
                       cost |-> 0, extra_readers |-> 0,
                       inputs_provided |-> 0, outputs_provided |-> 0]
    /\ pc = "done" =>
           /\ result[1] # None
           /\ result[1].controllers = controller_info[1]
           /\ dc_totals[1].readers = 0 => result[1].total_cost = expansion[1].cost

\* C7 witness: a line without readers but with devices got a line result
C7_Witness ==
    /\ pc = "done"
    /\ dc_totals[1].readers = 0 /\ dc_totals[1].inputs = 5
    /\ result[1] # None
    /\ result[1].controllers.cost = 0
    /\ result[1].total_cost = 447

---------------------------------------------------------------------------
(* The expansion selector against the catalog. *)

\* the shortages of the line being calculated, from the demand and the controllers
InputShortage == Max(0, dc_totals[1].inputs - controller_info[1].inputs_provided)
OutputShortage == Max(0, dc_totals[1].outputs - controller_info[1].outputs_provided)

\* single modules and ordered pairs of modules, as sequences of catalog indexes
Combinations ==
    { <<m>> : m \in 1 .. Len(expansion_modules) }
    \cup ((1 .. Len(expansion_modules)) \X (1 .. Len(expansion_modules)))

CombinationInputs(c) ==
    IF Len(c) = 1 THEN expansion_modules[c[1]].inputs
    ELSE expansion_modules[c[1]].inputs + expansion_modules[c[2]].inputs

CombinationOutputs(c) ==
    IF Len(c) = 1 THEN expansion_modules[c[1]].outputs
    ELSE expansion_modules[c[1]].outputs + expansion_modules[c[2]].outputs

CombinationCost(c) ==
    IF Len(c) = 1 THEN expansion_modules[c[1]].cost
    ELSE expansion_modules[c[1]].cost + expansion_modules[c[2]].cost

CombinationNames(c) == [k \in 1 .. Len(c) |-> expansion_modules[c[k]].name]

\* the combinations that cover the shortages of the line being calculated
Covering ==
    { c \in Combinations :
        CombinationInputs(c) >= InputShortage /\ CombinationOutputs(c) >= OutputShortage }

\* C8: when something is short and a single module or a pair covers both
\* shortages, the result is one covering combination of at most two modules of
\* the least cost among all covering singles and pairs, and it is a single
\* module whenever some single module covers.
C8_CheapestSingleOrPair ==
    (expansion # <<>> /\ (InputShortage > 0 \/ OutputShortage > 0) /\ Covering # {}) =>
        /\ Len(expansion[1].modules) <= 2
        /\ \E c \in Covering :
               /\ CombinationNames(c) = expansion[1].modules
               /\ CombinationCost(c) = expansion[1].cost
        /\ \A c \in Covering : expansion[1].cost <= CombinationCost(c)
        /\ (\E c \in Covering : Len(c) = 1) => Len(expansion[1].modules) = 1

\* C8 witness: 20 inputs and 10 outputs short need two modules for 894
C8_Witness ==
    /\ expansion # <<>>
    /\ InputShortage = 20 /\ OutputShortage = 10
    /\ Len(expansion[1].modules) = 2
    /\ expansion[1].cost = 894

\* the least n with n * size >= amount
UnitsFor(amount, size) == CHOOSE n \in 0 .. amount : n * size >= amount /\ (n - 1) * size < amount

CatalogNames == { expansion_modules[m].name : m \in 1 .. Len(expansion_modules) }

\* C9: the fallback is used exactly when no single module and no pair covers
\* the shortages; it then returns ceil(input_shortage/16) in16 units (none for
\* no input shortage) and ceil(output_shortage/8) r8 units (none for no output
\* shortage) at 470 each.
C9_Fallback ==
    (expansion # <<>> /\ (InputShortage > 0 \/ OutputShortage > 0)) =>
        LET in16 == UnitsFor(InputShortage, 16)
            r8 == UnitsFor(OutputShortage, 8)
            in16_entry == IF InputShortage > 0
                          THEN <<"in16 (x" \o ToString(in16) \o ")">> ELSE <<>>
            r8_entry == IF OutputShortage > 0
                        THEN <<"r8 (x" \o ToString(r8) \o ")">> ELSE <<>>
        IN  IF Covering = {}
            THEN /\ expansion[1].modules = in16_entry \o r8_entry
                 /\ expansion[1].cost = 470 * (in16 + r8)
            ELSE \A k \in 1 .. Len(expansion[1].modules) :
                     expansion[1].modules[k] \in CatalogNames

\* C9 witness: 20 inputs and 17 outputs short are beyond every pair
C9_Witness ==
    /\ expansion # <<>>
    /\ InputShortage = 20 /\ OutputShortage = 17
    /\ expansion[1].modules = <<"in16 (x2)", "r8 (x3)">>
    /\ expansion[1].cost = 2350

\* C10: when the controllers provide at least the demanded inputs and at least
\* the demanded outputs, no module is chosen and the expansion costs 0; a
\* surplus in one dimension does not make up for a shortage in the other.
C10_NothingShort ==
    expansion # <<>> =>
        LET inputs_met == controller_info[1].inputs_provided >= dc_totals[1].inputs
            outputs_met == controller_info[1].outputs_provided >= dc_totals[1].outputs
        IN  /\ (inputs_met /\ outputs_met) => expansion[1] = [modules |-> <<>>, cost |-> 0]
            /\ ~(inputs_met /\ outputs_met) =>
                   (expansion[1].modules # <<>> /\ expansion[1].cost > 0)

\* C10 witness: spare inputs, outputs exactly met, no module
C10_Witness ==
    /\ expansion # <<>>
    /\ controller_info[1].inputs_provided > dc_totals[1].inputs
    /\ controller_info[1].outputs_provided = dc_totals[1].outputs
    /\ dc_totals[1].outputs > 0
    /\ expansion[1] = [modules |-> <<>>, cost |-> 0]

---------------------------------------------------------------------------
(* Claims about the license calculation, checked under Spec. *)

\* no line, or no line with a reader: nothing needs a controller
NoReaders(lines) ==
    \A i \in 1 .. Len(lines) : lines[i].smart_card + lines[i].fingerprint = 0

\* the last operation was calculate_license_requirements
LicenseAsked == report.op = "license" /\ report.outcome # "invalid_input"

\* the aggregate controller count of the current lines
ControllerCount == calculate_total_controllers(dc_lines).total_controllers

\* C4: without redundancy and with at least one controller, the tier is special
\* exactly when the aggregate controller count is <= 32 and corporate exactly
\* when it is >= 33; no add-on is listed and the license costs 0.
C4_NonRedundantTier ==
    (LicenseAsked /\ ~report.use_redundancy /\ ~NoReaders(dc_lines)) =>
        /\ ControllerCount > 0
        /\ report.outcome = "summary"
        /\ license_result # <<>>
        /\ LET d == license_result[1]
           IN  /\ d.total_controllers = ControllerCount
               /\ d.use_redundancy = FALSE
               /\ d.primary_license \in {"special", "corporate"}
               /\ d.primary_license = "special" <=> ControllerCount <= 32
               /\ d.primary_license = "corporate" <=> ControllerCount >= 33
               /\ d.additional_licenses = <<>>
               /\ d.total_license_cost = 0
        /\ report.primary = IF ControllerCount <= 32 THEN "Kantech Special License"
                            ELSE "Kantech Corporate License"
        /\ report.additional = <<>>
        /\ report.total_license_cost = 0

\* C4 witness: exactly 32 controllers, no redundancy, special license
C4_Witness ==
    /\ LicenseAsked /\ ~report.use_redundancy
    /\ ControllerCount = 32
    /\ license_result # <<>>
    /\ license_result[1].total_controllers = 32
    /\ license_result[1].primary_license = "special"

\* what redundancy always yields: the global tier with the gateway and the
\* redundancy add-ons at 500 + 750
RedundantDecision(d) ==
    /\ d.use_redundancy = TRUE
    /\ d.primary_license = "global"
    /\ d.additional_licenses = << [name |-> "Gateway License", cost |-> 500],
                                  [name |-> "Redundancy License", cost |-> 750] >>
    /\ d.total_license_cost = 500 + 750

RedundantSummary ==
    /\ report.outcome = "summary"
    /\ report.primary = "Global License"
    /\ report.additional = <<"Gateway License", "Redundancy License">>
    /\ report.total_license_cost = 500 + 750
    /\ license_result # <<>>
    /\ license_result[1].total_controllers = ControllerCount
    /\ RedundantDecision(license_result[1])

\* C5 as stated: with redundancy the resolver yields the global tier with both
\* add-ons at any aggregate controller count.
C5_RedundancyGlobalAnyCount ==
    (LicenseAsked /\ report.use_redundancy) => RedundantSummary

\* C5 as amended: with redundancy the resolver yields the global tier with both
\* add-ons, costing 500 + 750, at any aggregate controller count of at least 1;
\* a stored decision never combines redundancy with the special or corporate tier.
C5_RedundancyGlobal ==
    /\ (LicenseAsked /\ report.use_redundancy /\ ~NoReaders(dc_lines)) => RedundantSummary
    /\ license_result # <<>> =>
           /\ license_result[1].use_redundancy <=> license_result[1].primary_license = "global"
           /\ license_result[1].use_redundancy => RedundantDecision(license_result[1])

\* C5 witness: redundancy asked for with 33 controllers
C5_Witness ==
    /\ LicenseAsked /\ report.use_redundancy
    /\ ControllerCount = 33
    /\ RedundantSummary

\* C6: when no line needs a controller, calculate_license_requirements reports
\* that no controller is configured, whatever the redundancy flag, and leaves
\* self.license_result as it was.
C6_NoControllersNoDecision ==
    [][ (report'.op = "license" /\ report'.outcome # "invalid_input" /\ NoReaders(dc_lines'))
            => (report'.outcome = "no_controllers" /\ license_result' = license_result) ]_vars

\* C6 witness: lines exist but none has a reader; redundancy was asked for and
\* the decision stored earlier is still there
C6_Witness ==
    /\ report.op = "license" /\ report.outcome = "no_controllers"
    /\ report.use_redundancy
    /\ dc_lines # <<>> /\ NoReaders(dc_lines)
    /\ license_result # <<>>

---------------------------------------------------------------------------
(* Claims about the fleet calculation, checked under SpecFleet. *)

\* calculate_all_dc_lines has just printed its summary and stored its results
FleetCalculated == report.op = "all" /\ report.outcome = "summary"

\* export_all_results_to_csv has just handed its rows to the writer
FleetExported == report.op = "export" /\ report.outcome = "exported"

\* f[1] + ... + f[n]
RECURSIVE SumTo(_, _)
SumTo(f, n) == IF n = 0 THEN 0 ELSE f[n] + SumTo(f, n - 1)

\* the sums over the stored line results
StoredCount == Len(all_results[1])
StoredKt400 == SumTo([i \in 1 .. StoredCount |-> all_results[1][i].controllers.kt400], StoredCount)
StoredKt2 == SumTo([i \in 1 .. StoredCount |-> all_results[1][i].controllers.kt2], StoredCount)
StoredKt1 == SumTo([i \in 1 .. StoredCount |-> all_results[1][i].controllers.kt1], StoredCount)
StoredControllerCost ==
    SumTo([i \in 1 .. StoredCount |-> all_results[1][i].controllers.cost], StoredCount)
StoredExpansionCost ==
    SumTo([i \in 1 .. StoredCount |-> all_results[1][i].expansion.cost], StoredCount)
StoredTotalCost == SumTo([i \in 1 .. StoredCount |-> all_results[1][i].total_cost], StoredCount)

\* C11: the fleet's kt-400, kt-2 and kt-1 totals are the sums of the line
\* results' counts, the total expansion cost is the sum of the lines' expansion
\* costs and the grand total is the sum of the lines' total_cost; so the grand
\* total is 1400*total_kt400 + 750*total_kt2 + 450*total_kt1 + total expansion
\* cost, and the controller cost on screen is the exported sum of the lines'
\* controller costs.
C11_FleetTotals ==
    /\ FleetCalculated =>
           /\ all_results # <<>> /\ grand_total # <<>>
           /\ report.total_kt400 = StoredKt400
           /\ report.total_kt2 = StoredKt2
           /\ report.total_kt1 = StoredKt1
           /\ report.total_expansion_cost = StoredExpansionCost
           /\ report.grand_total = StoredTotalCost
           /\ grand_total[1] = StoredTotalCost
           /\ report.grand_total =
                  (1400 * report.total_kt400 + 750 * report.total_kt2
                   + 450 * report.total_kt1) + report.total_expansion_cost
           /\ report.total_controller_cost = StoredControllerCost
    /\ FleetExported =>
           /\ report.grand_total.KT400 = StoredKt400
           /\ report.grand_total.KT2 = StoredKt2
           /\ report.grand_total.KT1 = StoredKt1
           /\ report.grand_total.Controller_Cost = StoredControllerCost
           /\ report.grand_total.Controller_Cost =
                  1400 * StoredKt400 + 750 * StoredKt2 + 450 * StoredKt1
           /\ report.grand_total.Expansion_Cost = StoredExpansionCost
           /\ report.grand_total.Total_Cost = StoredTotalCost
           /\ report.grand_total.Total_Cost =
                  report.grand_total.Controller_Cost + report.grand_total.Expansion_Cost

\* C11 witness: a fleet of the scenario's line and an edited line with a module:
\* one kt-400, two kt-2, one kt-1 and one module cost 3797 together
C11_Witness ==
    /\ FleetCalculated
    /\ StoredCount = 2
    /\ report.total_kt400 = 1 /\ report.total_kt2 = 2 /\ report.total_kt1 = 1
    /\ report.total_expansion_cost = 447
    /\ report.grand_total = 3797

\* the shortages of a line result against its own controllers
OwnInputShortage(r) == Max(0, r.requirements.inputs - r.controllers.inputs_provided)
OwnOutputShortage(r) == Max(0, r.requirements.outputs - r.controllers.outputs_provided)

\* C12: in a fleet calculation every line result is the one that the line
\* gets when it is calculated as the only line: its demand is that of its own
\* tally, its controllers answer its own readers, its modules answer the
\* shortage against its own controllers, whatever the other lines are and
\* whatever their controllers have to spare.
C12_LinesIndependent ==
    FleetCalculated =>
        /\ Len(all_results[1]) = Len(dc_lines)
        /\ \A i \in 1 .. Len(dc_lines) :
               LET r == all_results[1][i]
                   alone == collect_results(<<dc_lines[i]>>, 1, <<>>)
               IN  /\ r = alone[1]
                   /\ r.dc_number = dc_lines[i].dc_number
                   /\ r.requirements = calculate_totals(dc_lines[i])
                   /\ r.controllers.readers_provided >= r.requirements.readers
                   /\ r.expansion =
                          expansion_for_shortage(OwnInputShortage(r), OwnOutputShortage(r))
                   /\ (OwnInputShortage(r) > 0 \/ OwnOutputShortage(r) > 0)
                          => r.expansion.cost > 0
                   /\ r.total_cost = r.controllers.cost + r.expansion.cost

\* C12 witness: the first line's controllers have four inputs to spare, the
\* second line is four inputs short and gets a module all the same
C12_Witness ==
    /\ FleetCalculated
    /\ Len(all_results[1]) = 2
    /\ all_results[1][1].controllers.inputs_provided
           - all_results[1][1].requirements.inputs = 4
    /\ OwnInputShortage(all_results[1][2]) = 4
    /\ all_results[1][2].expansion.cost = 447

\* C14 as stated: whenever a fleet result is stored, it is the result of
\* calculating the lines the session holds now.
C14_FleetResultCurrent ==
    all_results # <<>> =>
        /\ dc_lines # <<>>
        /\ all_results[1] = collect_results(dc_lines, 1, <<>>)
        /\ grand_total[1] = accumulate_totals(all_results[1], 1, NoTotals).grand_total_cost

---------------------------------------------------------------------------
(* Claims about the fleet calculation and the license, checked under
   SpecLicensedFleet. *)

\* C15 as stated: whenever a license decision and a fleet result are both
\* stored, the decision's total_controllers is the number of kt-400, kt-2 and
\* kt-1 units of the fleet result's lines, and its tier is the one that this
\* count and the redundancy flag determine.
C15_LicenseFromFleetResult ==
    (license_result # <<>> /\ all_results # <<>>) =>
        /\ license_result[1].total_controllers = StoredKt400 + StoredKt2 + StoredKt1
        /\ license_result[1].primary_license =
               (IF license_result[1].use_redundancy THEN "global"
                ELSE IF StoredKt400 + StoredKt2 + StoredKt1 <= 32 THEN "special"
                ELSE "corporate")

---------------------------------------------------------------------------
(* The scenarios of the specification. *)

\* the line being calculated has two smart-card readers, two door sensors,
\* two magnetic locks and nothing else
ScenarioTally ==
    /\ dc_line.smart_card = 2 /\ dc_line.door_sensor = 2 /\ dc_line.magnetic_lock = 2
    /\ \A f \in FieldNames \ {"smart_card", "door_sensor", "magnetic_lock"} : dc_line[f] = 0

\* C16: for a line with smart_card = 2, door_sensor = 2, magnetic_lock = 2 and
\* nothing else the demand is 2 readers, 4 inputs, 2 outputs; the selector
\* chooses one kt-2, no kt-1 and no kt-400 at cost 750 with 8 inputs and 2
\* outputs; no module is added; the line total is 750.  Checked under SpecLine.
C16_ScenarioLine ==
    ScenarioTally =>
        /\ dc_totals # <<>> => dc_totals[1] = [readers |-> 2, inputs |-> 4, outputs |-> 2]
        /\ controller_info # <<>> =>
               /\ controller_info[1] # None
               /\ controller_info[1].kt2 = 1
               /\ controller_info[1].kt1 = 0
               /\ controller_info[1].kt400 = 0
               /\ controller_info[1].cost = 750
               /\ controller_info[1].inputs_provided = 8
               /\ controller_info[1].outputs_provided = 2
        /\ expansion # <<>> => expansion[1] = [modules |-> <<>>, cost |-> 0]
        /\ pc = "done" =>
               /\ result[1] # None
               /\ result[1].requirements = [readers |-> 2, inputs |-> 4, outputs |-> 2]
               /\ result[1].controllers.kt2 = 1
               /\ result[1].expansion.modules = <<>>
               /\ result[1].total_cost = 750

\* C16 witness: the scenario's line has been calculated to the end
C16_Witness ==
    /\ ScenarioTally
    /\ pc = "done"
    /\ result[1].controllers.cost = 750
    /\ result[1].total_cost = 750

\* the session holds k >= 1 lines with the same tallies
IdenticalLines ==
    /\ dc_lines # <<>>
    /\ \A i \in 1 .. Len(dc_lines) : \A f \in FieldNames : dc_lines[i][f] = dc_lines[1][f]

\* the session holds three lines, each with two smart-card readers, two door
\* sensors, two magnetic locks and nothing else
ThreeScenarioLines ==
    /\ Len(dc_lines) = 3
    /\ \A i \in 1 .. 3 :
           /\ dc_lines[i].smart_card = 2 /\ dc_lines[i].door_sensor = 2
           /\ dc_lines[i].magnetic_lock = 2
           /\ \A f \in FieldNames \ {"smart_card", "door_sensor", "magnetic_lock"} :
                  dc_lines[i][f] = 0

\* C17: for a fleet of k identical lines the aggregate controller count is k
\* times the controller count of one line and the grand total is k times the
\* total of one line, in the fleet calculation and in the license calculation;
\* three lines of the scenario give 3 controllers, the special license without
\* redundancy, and a grand total of 3 * 750.  Checked under SpecLicensedFleet.
C17_IdenticalLines ==
    /\ (FleetCalculated /\ IdenticalLines) =>
           LET k == Len(dc_lines)
               one == calculate_single_dc_line(dc_lines[1])
           IN  /\ report.total_controllers =
                      k * (one.controllers.kt400 + one.controllers.kt2 + one.controllers.kt1)
               /\ report.grand_total = k * one.total_cost
               /\ grand_total[1] = k * one.total_cost
               /\ Len(all_results[1]) = k
    /\ (LicenseAsked /\ IdenticalLines) =>
           LET k == Len(dc_lines)
               one == calculate_single_dc_line(dc_lines[1])
           IN  /\ report.outcome = "summary"
               /\ report.total_controllers =
                      k * (one.controllers.kt400 + one.controllers.kt2 + one.controllers.kt1)
               /\ license_result[1].total_controllers = report.total_controllers
    /\ (FleetCalculated /\ ThreeScenarioLines) =>
           /\ report.total_controllers = 3
           /\ report.grand_total = 3 * 750
           /\ report.license_reference = "Kantech Special License"
    /\ (LicenseAsked /\ ThreeScenarioLines) =>
           /\ license_result[1].total_controllers = 3
           /\ ~report.use_redundancy =>
                  /\ license_result[1].primary_license = "special"
                  /\ report.primary = "Kantech Special License"

\* C17 witness: three lines of the scenario were calculated, for 2250 in all,
\* and the license was then calculated without redundancy
C17_Witness ==
    /\ ThreeScenarioLines
    /\ all_results # <<>>
    /\ Len(all_results[1]) = 3
    /\ grand_total[1] = 2250
    /\ LicenseAsked /\ ~report.use_redundancy
    /\ license_result[1].total_controllers = 3
    /\ license_result[1].primary_license = "special"

---------------------------------------------------------------------------
(* Claims about the edit and the calculation of one chosen line, checked
   under SpecRecompute. *)

\* some line of the session has the number n
LineExists(n) == \E i \in 1 .. Len(dc_lines) : dc_lines[i].dc_number = n

\* C18: an edit or a calculation of one line that names a line number which no
\* line of the session has is reported as not found (or, with no line at all,
\* as no lines configured) and changes nothing: the lines with all their
\* tallies and the stored results stay as they were.
C18_NotFoundNoMutation ==
    [][ (/\ report'.op \in {"edit", "specific"}
         /\ "dc_number" \in DOMAIN report'
         /\ ~LineExists(report'.dc_number))
            => (/\ report'.outcome = (IF dc_lines = <<>> THEN "no_lines" ELSE "not_found")
                /\ dc_lines' = dc_lines
                /\ all_results' = all_results
                /\ grand_total' = grand_total
                /\ license_result' = license_result
                /\ single_result' = single_result) ]_vars

\* C18 witness: with lines and a stored result in place, a line number that
\* no line has was asked for and reported as not found
C18_Witness ==
    /\ report.op = "specific" /\ report.outcome = "not_found"
    /\ dc_lines # <<>>
    /\ ~LineExists(report.dc_number)
    /\ single_result # <<>>

---------------------------------------------------------------------------
(* Claims about the stored lines, checked under Spec. *)

\* C19: after any sequence of additions and edits, with negative numbers and
\* empty lines among what is typed, each of the eleven tallies of every stored
\* line is a non-negative integer.
C19_TalliesNonNegative ==
    \A i \in 1 .. Len(dc_lines) : \A f \in FieldNames : dc_lines[i][f] \in Nat

\* C19 witness: the scenario's line after an edit in which -1 and then 0 was
\* typed for the smart-card readers and Enter for the rest
C19_Witness ==
    /\ report.op = "edit" /\ report.outcome = "updated"
    /\ \E i \in 1 .. Len(dc_lines) :
           /\ dc_lines[i].dc_number = report.dc_number
           /\ dc_lines[i].smart_card = 0
           /\ dc_lines[i].door_sensor = 2
           /\ dc_lines[i].magnetic_lock = 2

---------------------------------------------------------------------------
(* The expansion allocation as a list of catalog modules, checked under SpecLine. *)

\* the catalog's cost of one unit of the module with this name
UnitCost(name) ==
    LET m == CHOOSE k \in 1 .. Len(expansion_modules) : expansion_modules[k].name = name
    IN  expansion_modules[m].cost

\* C20 as stated: the allocation's module list consists of catalog module
\* names, one entry per unit used, and the allocation's cost is the sum of the
\* catalog unit costs of the listed modules.
C20_ModulesAreCatalogUnits ==
    expansion # <<>> =>
        LET modules == expansion[1].modules
        IN  /\ \A k \in 1 .. Len(modules) : modules[k] \in CatalogNames
            /\ expansion[1].cost =
                   SumTo([k \in 1 .. Len(modules) |-> UnitCost(modules[k])], Len(modules))

---------------------------------------------------------------------------
(* What the listed modules provide, checked under SpecLine. *)

\* the fallback's label of n units of the module called name, for every
\* catalog name and every n that the model's shortages can ask for
UnitLabels ==
    [name \in CatalogNames |->
        [n \in 0 .. (MaxInputs + MaxOutputs) |-> name \o " (x" \o ToString(n) \o ")"]]

\* the number of units an entry of the module list stands for: 1 for a catalog
\* name, n for the fallback's label of n units of the module called name
UnitsOf(entry, name) ==
    IF entry = name THEN 1
    ELSE IF \E n \in 0 .. (MaxInputs + MaxOutputs) : entry = UnitLabels[name][n]
    THEN CHOOSE n \in 0 .. (MaxInputs + MaxOutputs) : entry = UnitLabels[name][n]
    ELSE 0

\* the inputs and the outputs that one entry of the module list provides
EntryInputs(entry) ==
    SumTo([m \in 1 .. Len(expansion_modules) |->
              UnitsOf(entry, expansion_modules[m].name) * expansion_modules[m].inputs],
          Len(expansion_modules))

EntryOutputs(entry) ==
    SumTo([m \in 1 .. Len(expansion_modules) |->
              UnitsOf(entry, expansion_modules[m].name) * expansion_modules[m].outputs],
          Len(expansion_modules))

\* the inputs and the outputs that the chosen modules provide together
ProvidedInputs ==
    SumTo([k \in 1 .. Len(expansion[1].modules) |-> EntryInputs(expansion[1].modules[k])],
          Len(expansion[1].modules))

ProvidedOutputs ==
    SumTo([k \in 1 .. Len(expansion[1].modules) |-> EntryOutputs(expansion[1].modules[k])],
          Len(expansion[1].modules))

\* C21: for every pair of shortages, in the single, the pair and the fallback
\* tier alike, the expansion selector returns an allocation of finite cost
\* whose modules together provide at least input_shortage inputs and at least
\* output_shortage outputs; it never fails.
C21_ExpansionCovers ==
    expansion # <<>> =>
        /\ expansion[1] # None
        /\ expansion[1].cost # Inf
        /\ expansion[1].cost >= 0
        /\ \A k \in 1 .. Len(expansion[1].modules) :
               EntryInputs(expansion[1].modules[k]) + EntryOutputs(expansion[1].modules[k]) > 0
        /\ ProvidedInputs >= InputShortage
        /\ ProvidedOutputs >= OutputShortage

\* C21 witness: 33 inputs short is beyond every pair; three in16 units provide 48
C21_Witness ==
    /\ expansion # <<>>
    /\ InputShortage = 33 /\ OutputShortage = 0
    /\ Covering = {}
    /\ expansion[1].modules = <<"in16 (x3)">>
    /\ ProvidedInputs = 48

---------------------------------------------------------------------------
(* The shape of the chosen controllers, checked under SpecLine. *)

\* C22: for every reader demand r the chosen controllers provide exactly r
\* readers with r \div 4 kt-400 units and, for r mod 4 = 0, 1, 2, 3, nothing
\* more, one kt-1, one kt-2, one kt-2 and one kt-1; no other combination that
\* provides r readers or more costs as little, so the order in which the
\* search meets the combinations does not matter.
C22_CanonicalAllocation ==
    JustSelected =>
        LET r == dc_totals[1].readers
            c == controller_info[1]
        IN  /\ c # None
            /\ c.readers_provided = r
            /\ c.extra_readers = 0
            /\ c.kt400 = r \div 4
            /\ c.kt2 = (IF r % 4 \in {2, 3} THEN 1 ELSE 0)
            /\ c.kt1 = (IF r % 4 \in {1, 3} THEN 1 ELSE 0)
            /\ \A a \in 0 .. ((r \div 4) + 2 + OracleSlack) :
               \A b \in 0 .. ((r \div 2) + 2 + OracleSlack) :
               \A k \in 0 .. (r + 2 + OracleSlack) :
                   (/\ 4 * a + 2 * b + k >= r
                    /\ 1400 * a + 750 * b + 450 * k <= c.cost)
                       => (a = c.kt400 /\ b = c.kt2 /\ k = c.kt1)

\* C22 witness: 11 readers are served by two kt-400, one kt-2 and one kt-1
C22_Witness ==
    /\ JustSelected
    /\ dc_totals[1].readers = 11
    /\ controller_info[1].kt400 = 2 /\ controller_info[1].kt2 = 1
    /\ controller_info[1].kt1 = 1
    /\ controller_info[1].extra_readers = 0

---------------------------------------------------------------------------
(* The numbering of the lines, checked under Spec. *)

\* the i-th stored line has the number i
NumberedByPosition(lines) == \A i \in 1 .. Len(lines) : lines[i].dc_number = i

\* C23: after any sequence of additions, edits and clear-all-data the i-th
\* stored line has dc_number = i, so the numbers are unique; an edit changes
\* neither a dc_number nor the number of lines; clear-all-data leaves no line,
\* and the line added next gets the number 1.
C23_LineNumbers ==
    /\ [] NumberedByPosition(dc_lines)
    /\ [][ /\ report'.op = "edit" =>
                  /\ Len(dc_lines') = Len(dc_lines)
                  /\ \A i \in 1 .. Len(dc_lines) :
                         dc_lines'[i].dc_number = dc_lines[i].dc_number
           /\ report'.op = "clear" => dc_lines' = <<>>
           /\ (report.op = "clear" /\ report'.op = "add") =>
                  (Len(dc_lines') = 1 /\ dc_lines'[1].dc_number = 1
                   /\ report'.dc_number = 1)
           /\ report'.op = "add" =>
                  (/\ Len(dc_lines') = Len(dc_lines) + 1
                   /\ dc_lines'[Len(dc_lines')].dc_number = Len(dc_lines')
                   /\ \A i \in 1 .. Len(dc_lines) : dc_lines'[i] = dc_lines[i]) ]_vars

\* C23 witness: a decision for 33 controllers is still stored from three
\* lines that were cleared since; the one line added after that has the number 1
C23_Witness ==
    /\ report.op = "add"
    /\ Len(dc_lines) = 1
    /\ dc_lines[1].dc_number = 1
    /\ license_result # <<>>
    /\ license_result[1].total_controllers = 33

============================================================================
